---- MODULE Spec2Model ----
(***************************************************************************)
(* Clinical trial management backend (Express + Passport + Mongoose) and   *)
(* the auth context of its React frontend.                                 *)
(*                                                                         *)
(* State: the users collection, the session store, the clinicaltrials      *)
(* collection, the requests that are between two awaits, and the last      *)
(* request with its response.  One action per route handler.               *)
(*                                                                         *)
(* Text values (trialId, names, search patterns) are tuples of one         *)
(* character strings, so that toUpperCase, the /^[A-Z0-9-]+$/ pattern and  *)
(* the case-insensitive substring search are computed character by         *)
(* character.  A Date is a number of ticks of server-local time,           *)
(* TicksPerDay ticks to the calendar day.  A request body or a stored      *)
(* document is a function from the names of the fields it carries to       *)
(* their values; a field that is undefined is not in its domain.           *)
(* Mongoose timestamps (createdAt, updatedAt) and the list-valued fields   *)
(* of a trial, which no route validates, are left out.                     *)
(***************************************************************************)
EXTENDS Integers, Sequences, FiniteSets, TLC

VARIABLES users, sessions, trials, pending, clock, last, client

vars == <<users, sessions, trials, pending, clock, last, client>>

---------------------------------------------------------------------------
(* Bounds *)

MaxTrials == 2
TicksPerDay == 2
MaxDay == 1
MaxLogins == 1
MaxPending == 2

---------------------------------------------------------------------------
(* Generic helpers on bodies and documents *)

Has(p, f) == f \in DOMAIN p

Without(p, f) == [k \in (DOMAIN p) \ {f} |-> p[k]]

With(p, f, v) == [k \in (DOMAIN p) \cup {f} |-> IF k = f THEN v ELSE p[k]]

\* { ...a, ...b }: the fields of b over those of a
Spread(a, b) == [k \in (DOMAIN a) \cup (DOMAIN b) |-> IF k \in DOMAIN b THEN b[k] ELSE a[k]]

NoTrial == [absent |-> TRUE]
NoUser == "nobody"
NoAccount == [absent |-> TRUE]
NoBody == [none |-> TRUE]

---------------------------------------------------------------------------
(* Characters and strings *)

Lower == <<"a", "b", "c", "d", "e", "f", "g", "h", "i", "j", "k", "l", "m",
           "n", "o", "p", "q", "r", "s", "t", "u", "v", "w", "x", "y", "z">>
Upper == <<"A", "B", "C", "D", "E", "F", "G", "H", "I", "J", "K", "L", "M",
           "N", "O", "P", "Q", "R", "S", "T", "U", "V", "W", "X", "Y", "Z">>

LowerLetters == { Lower[i] : i \in DOMAIN Lower }
UpperLetters == { Upper[i] : i \in DOMAIN Upper }
Digits == {"0", "1", "2", "3", "4", "5", "6", "7", "8", "9"}

toUpperCaseChar(c) ==
  IF c \in LowerLetters THEN Upper[CHOOSE i \in DOMAIN Lower : Lower[i] = c] ELSE c

toLowerCaseChar(c) ==
  IF c \in UpperLetters THEN Lower[CHOOSE i \in DOMAIN Upper : Upper[i] = c] ELSE c

\* String.prototype.toUpperCase
toUpperCase(s) == [i \in 1..Len(s) |-> toUpperCaseChar(s[i])]

toLowerCase(s) == [i \in 1..Len(s) |-> toLowerCaseChar(s[i])]

\* /^[A-Z0-9-]+$/.test(s)
MatchesTrialIdPattern(s) ==
  /\ Len(s) >= 1
  /\ \A i \in 1..Len(s) : s[i] \in UpperLetters \cup Digits \cup {"-"}

\* new RegExp(pat, 'i').test(s), for a pattern of plain characters
RegExpTestI(pat, s) ==
  LET p == toLowerCase(pat)
      t == toLowerCase(s)
  IN \E k \in 0..(Len(t) - Len(p)) : \A i \in 1..Len(p) : t[k + i] = p[i]

---------------------------------------------------------------------------
(* Dates *)

\* An ISO 8601 date string is <<day, tick of the day>>; anything else does not parse.
isISO8601(v) ==
  /\ Len(v) = 2
  /\ v[1] \in 0..(MaxDay + 1)
  /\ v[2] \in 0..(TicksPerDay - 1)

\* toDate(): the Date of a valid ISO string
toDate(v) == v[1] * TicksPerDay + v[2]

\* mutant: the time of day is kept
setHoursKeepsTime(d) == d

\* Date.prototype.setHours(0, 0, 0, 0)
setHoursMidnight(d) == d - (d % TicksPerDay)

---------------------------------------------------------------------------
(* Field validation of a trial body: express-validator chains *)

Phases == {"Preclinical", "Phase I", "Phase II", "Phase III", "Phase IV"}
Statuses == {"Planning", "Active", "Recruiting", "Suspended", "Completed", "Terminated"}

\* isLength({ min, max }) of a field; an undefined field counts as ''
isLength(p, f, min, max) ==
  LET n == IF Has(p, f) THEN Len(p[f]) ELSE 0
  IN n >= min /\ n <= max

\* isInt({ min, max })
isInt(p, f, min, max) == Has(p, f) /\ p[f] \in Int /\ p[f] >= min /\ p[f] <= max

\* the messages of validationResult(req) after the trialValidation chains
trialValidation(p) ==
     (IF isLength(p, "trialName", 1, 200) THEN {} ELSE {"Invalid trialName"})
  \cup (IF isLength(p, "trialId", 1, 50) THEN {} ELSE {"Invalid value"})
  \cup (IF Has(p, "trialId") /\ MatchesTrialIdPattern(p.trialId) THEN {} ELSE {"Invalid trialId"})
  \cup (IF isLength(p, "description", 1, 2000) THEN {} ELSE {"Invalid description"})
  \cup (IF isLength(p, "principalInvestigator", 1, 100) THEN {} ELSE {"Invalid PI"})
  \cup (IF isLength(p, "sponsor", 1, 200) THEN {} ELSE {"Invalid sponsor"})
  \cup (IF Has(p, "phase") /\ p.phase \in Phases THEN {} ELSE {"Invalid phase"})
  \cup (IF Has(p, "status") /\ p.status \notin Statuses THEN {"Invalid status"} ELSE {})
  \cup (IF Has(p, "startDate") /\ isISO8601(p.startDate) THEN {} ELSE {"Invalid startDate"})
  \cup (IF Has(p, "endDate") /\ isISO8601(p.endDate) THEN {} ELSE {"Invalid endDate"})
  \cup (IF /\ Has(p, "startDate") /\ isISO8601(p.startDate)
           /\ Has(p, "endDate") /\ isISO8601(p.endDate)
           /\ toDate(p.endDate) <= toDate(p.startDate)
        THEN {"End date must be after start date"} ELSE {})
  \cup (IF isInt(p, "estimatedEnrollment", 1, 100000) THEN {} ELSE {"Invalid estimatedEnrollment"})
  \cup (IF Has(p, "actualEnrollment") /\ ~(p.actualEnrollment \in Int /\ p.actualEnrollment >= 0)
        THEN {"Invalid actualEnrollment"} ELSE {})
  \cup (IF /\ Has(p, "actualEnrollment") /\ Has(p, "estimatedEnrollment")
           /\ p.actualEnrollment > p.estimatedEnrollment
        THEN {"Actual > Estimated"} ELSE {})
  \cup (IF isLength(p, "primaryEndpoint", 1, 500) THEN {} ELSE {"Invalid primaryEndpoint"})
  \cup (IF isLength(p, "therapeuticArea", 1, 100) THEN {} ELSE {"Invalid therapeuticArea"})
  \cup (IF Has(p, "drugName") /\ Len(p.drugName) > 100 THEN {"Invalid drugName"} ELSE {})

\* req.body after the chains' sanitizers: toDate() on the two dates
Sanitized(p) ==
  [k \in DOMAIN p |->
     IF k \in {"startDate", "endDate"}
     THEN (IF isISO8601(p[k]) THEN toDate(p[k]) ELSE -1)
     ELSE p[k]]

---------------------------------------------------------------------------
(* The ClinicalTrial schema *)

SchemaPaths ==
  {"trialName", "trialId", "description", "principalInvestigator", "sponsor",
   "phase", "status", "startDate", "endDate", "estimatedEnrollment",
   "actualEnrollment", "primaryEndpoint", "therapeuticArea", "drugName",
   "createdBy", "lastModifiedBy"}

RequiredPaths ==
  {"trialName", "trialId", "description", "principalInvestigator", "sponsor",
   "phase", "status", "startDate", "endDate", "estimatedEnrollment",
   "primaryEndpoint", "therapeuticArea", "createdBy"}

\* endDate validator: value > this.startDate
endDateValidator(doc) == doc.endDate > doc.startDate

\* actualEnrollment validator: value <= this.estimatedEnrollment
actualEnrollmentValidator(doc) == doc.actualEnrollment <= doc.estimatedEnrollment

\* the paths whose validation fails when the document is saved; save() validates
\* every path of the document, modified or not
SchemaErrors(doc) ==
     { f \in RequiredPaths : ~Has(doc, f) }
  \cup (IF Has(doc, "trialId") /\ ~MatchesTrialIdPattern(doc.trialId) THEN {"trialId"} ELSE {})
  \cup (IF Has(doc, "trialName") /\ Len(doc.trialName) > 200 THEN {"trialName"} ELSE {})
  \cup (IF Has(doc, "description") /\ Len(doc.description) > 2000 THEN {"description"} ELSE {})
  \cup (IF Has(doc, "principalInvestigator") /\ Len(doc.principalInvestigator) > 100
        THEN {"principalInvestigator"} ELSE {})
  \cup (IF Has(doc, "sponsor") /\ Len(doc.sponsor) > 200 THEN {"sponsor"} ELSE {})
  \cup (IF Has(doc, "phase") /\ doc.phase \notin Phases THEN {"phase"} ELSE {})
  \cup (IF Has(doc, "status") /\ doc.status \notin Statuses THEN {"status"} ELSE {})
  \cup (IF Has(doc, "endDate") /\ Has(doc, "startDate") /\ ~endDateValidator(doc)
        THEN {"endDate"} ELSE {})
  \cup (IF Has(doc, "estimatedEnrollment")
           /\ (doc.estimatedEnrollment < 1 \/ doc.estimatedEnrollment > 100000)
        THEN {"estimatedEnrollment"} ELSE {})
  \cup (IF Has(doc, "actualEnrollment") /\ doc.actualEnrollment < 0
        THEN {"actualEnrollment"} ELSE {})
  \cup (IF Has(doc, "actualEnrollment") /\ Has(doc, "estimatedEnrollment")
           /\ doc.actualEnrollment >= 0 /\ ~actualEnrollmentValidator(doc)
        THEN {"actualEnrollment"} ELSE {})
  \cup (IF Has(doc, "primaryEndpoint") /\ Len(doc.primaryEndpoint) > 500
        THEN {"primaryEndpoint"} ELSE {})
  \cup (IF Has(doc, "therapeuticArea") /\ Len(doc.therapeuticArea) > 100
        THEN {"therapeuticArea"} ELSE {})
  \cup (IF Has(doc, "drugName") /\ Len(doc.drugName) > 100 THEN {"drugName"} ELSE {})

\* new ClinicalTrial(obj): the schema paths of obj, the trialId setter, the defaults
NewDocument(obj) ==
  LET given == [k \in (DOMAIN obj) \cap SchemaPaths |->
                  IF k = "trialId" THEN toUpperCase(obj[k]) ELSE obj[k]]
      d1 == IF Has(given, "status") THEN given ELSE With(given, "status", "Planning")
  IN IF Has(d1, "actualEnrollment") THEN d1 ELSE With(d1, "actualEnrollment", 0)

\* pre('save'): on a modified document that is not new, lastModifiedBy = createdBy
preSave(doc, stored) ==
  IF doc # stored THEN With(doc, "lastModifiedBy", doc.createdBy) ELSE doc

---------------------------------------------------------------------------
(* The collection *)

TrialKeys == 1..MaxTrials

\* a deleted document: its ObjectId is never given to another document
Gone == [deleted |-> TRUE]

\* the keys of the stored documents
Stored(store) == { k \in TrialKeys : store[k] \notin {NoTrial, Gone} }

findOneByTrialIdNone(store, id, except) == {}

\* ClinicalTrial.findOne({ trialId: id, _id: { $ne: except } }); except = 0 for none
findOneByTrialId(store, id, except) ==
  { k \in Stored(store) : store[k].trialId = id /\ k # except }

\* the unique index on trialId refuses a second document with the same value
DuplicateKey(store, doc, key) ==
  \E k \in Stored(store) : k # key /\ store[k].trialId = doc.trialId

\* the ObjectIds not given out yet
FreeKeys(store) == { k \in TrialKeys : store[k] = NoTrial }

\* mutant: the admin role is not looked at
NoAccessOwnerOnly(us, u, doc) == doc.createdBy # u

\* req.user.role !== 'admin' && String(createdBy) !== String(req.user._id)
NoAccess(us, u, doc) == us[u].role # "admin" /\ doc.createdBy # u

---------------------------------------------------------------------------
(* Responses *)

Reply(status, error) == [status |-> status, error |-> error]

Ok == Reply(200, "")
Created == Reply(201, "")
Unauthorized == Reply(401, "Unauthorized")

\* what a trial handler answers and the collection it leaves; key = the document touched
Outcome(resp, store, key) == [resp |-> resp, store |-> store, key |-> key]

---------------------------------------------------------------------------
(* POST /api/trials *)

\* t.save() of a new document: validation, then the insert under the unique index
SaveNew(store, doc) ==
  IF SchemaErrors(doc) # {} \/ DuplicateKey(store, doc, 0)
  THEN Outcome(Reply(500, "Server Error"), store, 0)
  ELSE LET key == CHOOSE k \in FreeKeys(store) : \A j \in FreeKeys(store) : k <= j
       IN Outcome(Created, [store EXCEPT ![key] = doc], key)

CreateDocumentBodyWins(u, body) ==
  NewDocument(Spread([createdBy |-> u, lastModifiedBy |-> u], body))

\* the document the handler builds from the validated body
CreateDocument(u, body) ==
  NewDocument(Spread(body, [trialId |-> toUpperCase(body.trialId),
                            createdBy |-> u, lastModifiedBy |-> u]))

\* the handler runs on to the save
Passed == Reply(0, "")

\* the handler up to the result of ClinicalTrial.findOne: the response, if it ends there
preCheck(store, p) ==
  IF trialValidation(p) # {}
  THEN Reply(400, "Validation Error")
  ELSE IF findOneByTrialId(store, toUpperCase(Sanitized(p).trialId), 0) # {}
  THEN Reply(400, "Duplicate Trial ID")
  ELSE Passed

postTrialUnchecked(store, u, p) ==
  LET key == CHOOSE k \in FreeKeys(store) : \A j \in FreeKeys(store) : k <= j
  IN Outcome(Created,
             [store EXCEPT ![key] = NewDocument(Spread(Sanitized(p), [createdBy |-> u]))], key)

postTrial(store, u, p) ==
  IF preCheck(store, p) # Passed
  THEN Outcome(preCheck(store, p), store, 0)
  ELSE SaveNew(store, CreateDocument(u, Sanitized(p)))

---------------------------------------------------------------------------
(* PUT /api/trials/:id *)

\* startDate / endDate of the update, reset to midnight
UpdateStart(current, body) ==
  setHoursMidnight(IF Has(body, "startDate") THEN body.startDate ELSE current.startDate)

UpdateEnd(current, body) ==
  setHoursMidnight(IF Has(body, "endDate") THEN body.endDate ELSE current.endDate)

\* the handler's enrollment check: only when the body carries actualEnrollment
EnrollmentRejected(current, body) ==
  LET estimatedEnrollment == IF Has(body, "estimatedEnrollment")
                             THEN body.estimatedEnrollment
                             ELSE current.estimatedEnrollment
  IN /\ Has(body, "actualEnrollment")
     /\ \/ body.actualEnrollment < 0
        \/ body.actualEnrollment > estimatedEnrollment

\* updateData: the body with the normalised dates, the uppercase trialId and lastModifiedBy
UpdateData(current, body, u) ==
  LET d1 == With(With(body, "startDate", UpdateStart(current, body)),
                 "endDate", UpdateEnd(current, body))
      d2 == IF Has(d1, "trialId") THEN With(d1, "trialId", toUpperCase(d1.trialId)) ELSE d1
  IN With(d2, "lastModifiedBy", u)

\* Object.assign(current, updateData): the schema paths of updateData over current
Assign(current, updateData) ==
  Spread(current, [k \in (DOMAIN updateData) \cap SchemaPaths |-> updateData[k]])

\* mutant: save() validates the modified paths only
SaveExistingModifiedOnly(store, key, doc) ==
  IF { f \in SchemaErrors(doc) : ~Has(store[key], f) \/ doc[f] # store[key][f] } # {}
  THEN Outcome(Reply(400, "Validation Error"), store, key)
  ELSE LET saved == preSave(doc, store[key])
       IN IF DuplicateKey(store, saved, key)
          THEN Outcome(Reply(500, "Server Error"), store, key)
          ELSE Outcome(Ok, [store EXCEPT ![key] = saved], key)

\* current.save(): validation of the whole document, pre('save'), the write
SaveExisting(store, key, doc) ==
  IF SchemaErrors(doc) # {}
  THEN Outcome(Reply(400, "Validation Error"), store, key)
  ELSE LET saved == preSave(doc, store[key])
       IN IF DuplicateKey(store, saved, key)
          THEN Outcome(Reply(500, "Server Error"), store, key)
          ELSE Outcome(Ok, [store EXCEPT ![key] = saved], key)

putTrial(us, store, u, key, p) ==
  LET body == Sanitized(p)
      current == store[key]
  IN IF trialValidation(p) # {}
     THEN Outcome(Reply(400, "Validation Error"), store, key)
     ELSE IF current \in {NoTrial, Gone}
     THEN Outcome(Reply(404, "Not Found"), store, key)
     ELSE IF NoAccess(us, u, current)
     THEN Outcome(Reply(403, "Forbidden"), store, key)
     ELSE IF /\ Has(body, "trialId")
             /\ toUpperCase(body.trialId) # current.trialId
             /\ findOneByTrialId(store, toUpperCase(body.trialId), key) # {}
     THEN Outcome(Reply(400, "Duplicate Trial ID"), store, key)
     ELSE IF UpdateEnd(current, body) <= UpdateStart(current, body)
     THEN Outcome(Reply(400, "Validation Error"), store, key)
     ELSE IF EnrollmentRejected(current, body)
     THEN Outcome(Reply(400, "Validation Error"), store, key)
     ELSE SaveExisting(store, key, Assign(current, UpdateData(current, body, u)))

---------------------------------------------------------------------------
(* GET /api/trials/:id and DELETE /api/trials/:id *)

getTrial(us, store, u, key) ==
  IF store[key] \in {NoTrial, Gone}
  THEN Outcome(Reply(404, "Trial Not Found"), store, key)
  ELSE IF NoAccess(us, u, store[key])
  THEN Outcome(Reply(403, "Forbidden"), store, key)
  ELSE Outcome(Ok, store, key)

deleteTrial(us, store, u, key) ==
  IF store[key] \in {NoTrial, Gone}
  THEN Outcome(Reply(404, "Trial Not Found"), store, key)
  ELSE IF NoAccess(us, u, store[key])
  THEN Outcome(Reply(403, "Forbidden"), store, key)
  ELSE Outcome(Ok, [store EXCEPT ![key] = Gone], key)

---------------------------------------------------------------------------
(* Users and sessions *)

UserIds == {"a1", "r1", "r2"}
Sessions == {"s0", "s1", "s2", "s3"}

\* the stored form of a password: bcrypt hash, compared by hashing the candidate
Hash(pw) == <<"#">> \o pw

comparePassword(user, candidate) == Hash(candidate) = user.password

\* a user document; isActive defaults to true
Account(username, email, pw, role) ==
  [username |-> username, email |-> email, password |-> Hash(pw),
   firstName |-> <<"f">>, lastName |-> <<"l">>, role |-> role,
   isActive |-> TRUE, lastLogin |-> 0]

Registered(us) == { u \in UserIds : us[u] # NoAccount }

\* User.findByEmailOrUsername: the email in lower case or the username as given
findByEmailOrUsername(us, identifier) ==
  { u \in Registered(us) :
      us[u].email = toLowerCase(identifier) \/ us[u].username = identifier }

\* user.updateLastLogin(): lastLogin = now, saved
updateLastLogin(us, u, now) == [us EXCEPT ![u].lastLogin = now]

\* mutant: deserializeUser without the isActive check
SessionUserAnyActive(us, ss, s) ==
  IF ss[s] # NoUser /\ us[ss[s]] # NoAccount THEN ss[s] ELSE NoUser

\* deserializeUser: the user of the session, if it still exists and is active
SessionUser(us, ss, s) ==
  IF ss[s] # NoUser /\ us[ss[s]] # NoAccount /\ us[ss[s]].isActive THEN ss[s] ELSE NoUser

\* req.isAuthenticated()
isAuthenticated(us, ss, s) == SessionUser(us, ss, s) # NoUser

NameA == <<"a", "n", "a">>
NameR == <<"b", "o", "b">>
NameN == <<"c", "y">> \o <<"1">>
EmailA == <<"a", "@", "x", ".", "y">>
EmailR == <<"b", "@", "x", ".", "y">>
EmailN == <<"c", "@", "x", ".", "y">>
PwA == <<"S", "e", "c", "r", "e", "t", "1">>
PwR == <<"P", "a", "s", "s", "w", "0">>

---------------------------------------------------------------------------
(* Request bodies of the trial routes *)

IdUpper == <<"A", "B", "C", "-", "1", "2", "3">>
IdLower == <<"a", "b", "c", "-", "1", "2", "3">>
IdOther == <<"X", "-", "9">>

BaseBody ==
  [trialName |-> <<"O", "n", "c">>, trialId |-> IdUpper, description |-> <<"a">>,
   principalInvestigator |-> <<"b">>, sponsor |-> <<"c">>, phase |-> "Phase I",
   startDate |-> <<0, 0>>, endDate |-> <<MaxDay, 0>>, estimatedEnrollment |-> 2,
   primaryEndpoint |-> <<"x">>, therapeuticArea |-> <<"O", "n", "c", "o">>]

\* start and end: a day apart, the same day at a later time, end before start
DatePairs ==
  { <<(<<0, 0>>), (<<MaxDay, 0>>)>>, <<(<<0, 0>>), (<<0, 1>>)>>, <<(<<MaxDay, 0>>), (<<0, 1>>)>> }

\* estimatedEnrollment and actualEnrollment; -1 for a body without actualEnrollment
EnrollmentPairs == { <<2, -1>>, <<1, -1>>, <<2, 2>>, <<1, 2>> }

BodyOf(id, dates, enr) ==
  LET b == [BaseBody EXCEPT !.trialId = id, !.startDate = dates[1], !.endDate = dates[2],
                            !.estimatedEnrollment = enr[1]]
  IN IF enr[2] < 0 THEN b ELSE With(b, "actualEnrollment", enr[2])

TrialBodies ==
  { BodyOf(id, dates, enr) : id \in {IdUpper, IdLower, IdOther},
                             dates \in DatePairs, enr \in EnrollmentPairs }
  \cup { Without(BaseBody, "estimatedEnrollment"),
         Spread(BaseBody, [createdBy |-> "r2", lastModifiedBy |-> "r2"]),
         With(BaseBody, "status", "Active"),
         [status |-> "Active"] }

---------------------------------------------------------------------------
(* State *)

\* the accounts the store starts with
InitialAccount(u) ==
  CASE u = "a1" -> Account(NameA, EmailA, PwA, "admin")
    [] u = "r1" -> Account(NameR, EmailR, PwR, "researcher")
    [] OTHER -> Account(NameN, EmailN, PwR, "researcher")

NoRequest == [op |-> "none", sid |-> "", user |-> NoUser, key |-> 0, body |-> NoBody,
              resp |-> Reply(0, ""), before |-> NoTrial]

Request(op, s, u, key, body, resp, before) ==
  [op |-> op, sid |-> s, user |-> u, key |-> key, body |-> body, resp |-> resp,
   before |-> before]

\* the state of the auth context of the frontend before its first effect; null is
\* NoUser for user and "" for the messages. The fields after error belong to the page:
\* localError of the AdminLogin form, the progress of its handleSubmit and the user of
\* its result, the type of the action dispatched last, whether the page is being left,
\* and the calls started
initialState ==
  [user |-> NoUser, isAuthenticated |-> FALSE, isLoading |-> TRUE, error |-> "",
   localError |-> "", flow |-> "idle", result |-> NoUser, dispatched |-> "",
   reloading |-> FALSE, calls |-> 0]

\* three accounts, each logged in on a session of its own, and an anonymous session
InitTrials ==
  /\ users = [u \in UserIds |-> InitialAccount(u)]
  /\ sessions = [s \in Sessions |->
                   CASE s = "s1" -> "a1" [] s = "s2" -> "r1" [] s = "s3" -> "r2"
                     [] OTHER -> NoUser]
  /\ trials = [k \in TrialKeys |-> NoTrial]
  /\ pending = <<>>
  /\ clock = 0
  /\ last = NoRequest
  /\ client = initialState

---------------------------------------------------------------------------
(* Actions: one request handled from start to end *)

\* isAuthenticated middleware: 401 for a request without a live session
Rejected401(op, s, key, body) ==
  /\ last = NoRequest
  /\ ~isAuthenticated(users, sessions, s)
  /\ last' = Request(op, s, NoUser, key, body, Unauthorized, NoTrial)
  /\ UNCHANGED <<client, users, sessions, trials, pending, clock>>

Handled(op, s, key, body, out, before) ==
  /\ last = NoRequest
  /\ trials' = out.store
  /\ last' = Request(op, s, SessionUser(users, sessions, s), out.key, body, out.resp, before)
  /\ UNCHANGED <<client, users, sessions, pending, clock>>

CreateTrial(s, p) ==
  /\ FreeKeys(trials) # {}
  /\ \/ Rejected401("create", s, 0, p)
     \/ /\ isAuthenticated(users, sessions, s)
        /\ Handled("create", s, 0, p,
                   postTrial(trials, SessionUser(users, sessions, s), p), NoTrial)

UpdateTrial(s, key, p) ==
  \/ Rejected401("update", s, key, p)
  \/ /\ isAuthenticated(users, sessions, s)
     /\ Handled("update", s, key, p,
                putTrial(users, trials, SessionUser(users, sessions, s), key, p),
                trials[key])

GetTrial(s, key) ==
  \/ Rejected401("get", s, key, NoBody)
  \/ /\ isAuthenticated(users, sessions, s)
     /\ Handled("get", s, key, NoBody,
                getTrial(users, trials, SessionUser(users, sessions, s), key), trials[key])

DeleteTrial(s, key) ==
  \/ Rejected401("delete", s, key, NoBody)
  \/ /\ isAuthenticated(users, sessions, s)
     /\ Handled("delete", s, key, NoBody,
                deleteTrial(users, trials, SessionUser(users, sessions, s), key),
                trials[key])

\* the response reaches the client; the next request is handled after it
Deliver ==
  /\ last # NoRequest
  /\ last' = NoRequest
  /\ UNCHANGED <<client, users, sessions, trials, pending, clock>>

\* the requests of the trial routes: every body from the admin and from one
\* researcher, the base body from every session
TrialRequests ==
  ({"s1", "s2"} \X TrialBodies) \cup (Sessions \X {BaseBody})

NextTrials ==
  \/ Deliver
  \/ \E r \in TrialRequests : CreateTrial(r[1], r[2])
  \/ \E r \in TrialRequests, k \in TrialKeys : UpdateTrial(r[1], k, r[2])
  \/ \E s \in Sessions, k \in TrialKeys : GetTrial(s, k)
  \/ \E s \in Sessions, k \in TrialKeys : DeleteTrial(s, k)

SpecTrials == InitTrials /\ [][NextTrials]_vars


---------------------------------------------------------------------------
(* POST /api/trials, one await at a time *)

\* the handler up to await ClinicalTrial.findOne; a request that passes waits to save
CreateBegin(s, p) ==
  \/ Rejected401("create", s, 0, p)
  \/ /\ isAuthenticated(users, sessions, s)
     /\ preCheck(trials, p) # Passed
     /\ Handled("create", s, 0, p, Outcome(preCheck(trials, p), trials, 0), NoTrial)
  \/ /\ isAuthenticated(users, sessions, s)
     /\ preCheck(trials, p) = Passed
     /\ Len(pending) < MaxPending
     /\ pending' = Append(pending, [sid |-> s, user |-> SessionUser(users, sessions, s),
                                    body |-> p])
     /\ UNCHANGED <<client, users, sessions, trials, clock, last>>

\* await t.save() of the i-th waiting request, and its response
CreateSave(i) ==
  LET r == pending[i]
      out == SaveNew(trials, CreateDocument(r.user, Sanitized(r.body)))
  IN /\ last = NoRequest
     /\ FreeKeys(trials) # {}
     /\ trials' = out.store
     /\ pending' = [j \in 1..(Len(pending) - 1) |-> IF j < i THEN pending[j] ELSE pending[j + 1]]
     /\ last' = Request("save", r.sid, r.user, out.key, r.body, out.resp, NoTrial)
     /\ UNCHANGED <<client, users, sessions, clock>>

RaceBodies == {BaseBody, [BaseBody EXCEPT !.trialId = IdOther], Without(BaseBody, "sponsor")}

NextRace ==
  \/ Deliver
  \/ \E s \in Sessions, p \in RaceBodies : CreateBegin(s, p)
  \/ \E i \in 1..Len(pending) : CreateSave(i)

SpecRace == InitTrials /\ [][NextRace]_vars

---------------------------------------------------------------------------
(* PUT /api/trials/:id, one await at a time *)

\* the handler from the validation result to the enrollment check, before current.save()
putCheck(us, store, u, key, p) ==
  LET body == Sanitized(p)
      current == store[key]
  IN IF trialValidation(p) # {} THEN Reply(400, "Validation Error")
     ELSE IF current \in {NoTrial, Gone} THEN Reply(404, "Not Found")
     ELSE IF NoAccess(us, u, current) THEN Reply(403, "Forbidden")
     ELSE IF /\ Has(body, "trialId")
             /\ toUpperCase(body.trialId) # current.trialId
             /\ findOneByTrialId(store, toUpperCase(body.trialId), key) # {}
     THEN Reply(400, "Duplicate Trial ID")
     ELSE IF UpdateEnd(current, body) <= UpdateStart(current, body)
     THEN Reply(400, "Validation Error")
     ELSE IF EnrollmentRejected(current, body) THEN Reply(400, "Validation Error")
     ELSE Passed

\* the paths of a loaded document that differ from what was loaded
ModifiedPaths(doc, loaded) == { f \in DOMAIN doc : ~Has(loaded, f) \/ doc[f] # loaded[f] }

\* current.save() of a document loaded earlier: validation of the document in memory,
\* pre('save'), then an update of the stored document that sets the modified paths only
SaveLoaded(store, key, doc, loaded) ==
  IF SchemaErrors(doc) # {}
  THEN Outcome(Reply(400, "Validation Error"), store, key)
  ELSE LET saved == preSave(doc, loaded)
           written == IF store[key] \in {NoTrial, Gone} THEN Gone
                      ELSE Spread(store[key],
                                  [f \in ModifiedPaths(saved, loaded) |-> saved[f]])
       IN IF written = Gone \/ DuplicateKey(store, written, key)
          THEN Outcome(Reply(500, "Server Error"), store, key)
          ELSE Outcome(Ok, [store EXCEPT ![key] = written], key)

\* the handler up to its last check; a request that passes holds the loaded document
UpdateBegin(s, key, p) ==
  LET u == SessionUser(users, sessions, s)
  IN \/ Rejected401("update", s, key, p)
     \/ /\ isAuthenticated(users, sessions, s)
        /\ putCheck(users, trials, u, key, p) # Passed
        /\ Handled("update", s, key, p,
                   Outcome(putCheck(users, trials, u, key, p), trials, key), trials[key])
     \/ /\ isAuthenticated(users, sessions, s)
        /\ putCheck(users, trials, u, key, p) = Passed
        /\ Len(pending) < MaxPending
        /\ pending' = Append(pending, [sid |-> s, user |-> u, key |-> key, body |-> p,
                                       loaded |-> trials[key]])
        /\ UNCHANGED <<client, users, sessions, trials, clock, last>>

\* Object.assign, await current.save() of the i-th waiting request, and its response
UpdateSave(i) ==
  LET r == pending[i]
      doc == Assign(r.loaded, UpdateData(r.loaded, Sanitized(r.body), r.user))
      out == SaveLoaded(trials, r.key, doc, r.loaded)
  IN /\ last = NoRequest
     /\ trials' = out.store
     /\ pending' = [j \in 1..(Len(pending) - 1) |-> IF j < i THEN pending[j] ELSE pending[j + 1]]
     /\ last' = Request("update", r.sid, r.user, r.key, r.body, out.resp, r.loaded)
     /\ UNCHANGED <<client, users, sessions, clock>>

UpdateRaceBodies ==
  { BodyOf(IdUpper, d, e) : d \in DatePairs, e \in EnrollmentPairs } \cup {[status |-> "Active"]}

\* one trial of researcher r1 is stored
InitUpdateRace ==
  /\ users = [u \in UserIds |-> InitialAccount(u)]
  /\ sessions = [s \in Sessions |->
                   CASE s = "s1" -> "a1" [] s = "s2" -> "r1" [] s = "s3" -> "r2"
                     [] OTHER -> NoUser]
  /\ trials = [k \in TrialKeys |->
                 IF k = 1 THEN CreateDocument("r1", Sanitized(BaseBody)) ELSE NoTrial]
  /\ pending = <<>>
  /\ clock = 0
  /\ last = NoRequest
  /\ client = initialState

NextUpdateRace ==
  \/ Deliver
  \/ \E s \in Sessions, p \in UpdateRaceBodies : UpdateBegin(s, 1, p)
  \/ \E i \in 1..Len(pending) : UpdateSave(i)

SpecUpdateRace == InitUpdateRace /\ [][NextUpdateRace]_vars

---------------------------------------------------------------------------
(* GET /api/trials *)

DigitSeq == <<"0", "1", "2", "3", "4", "5", "6", "7", "8", "9">>

RECURSIVE parseInt(_)
\* parseInt of a string of decimal digits
parseInt(v) ==
  IF Len(v) = 0 THEN 0
  ELSE 10 * parseInt(SubSeq(v, 1, Len(v) - 1))
         + (CHOOSE n \in 0..9 : DigitSeq[n + 1] = v[Len(v)])

\* query(f).optional().isInt({ min, max })
isIntQuery(q, f, min, max) ==
  Has(q, f) =>
    /\ Len(q[f]) >= 1
    /\ \A i \in 1..Len(q[f]) : q[f][i] \in Digits
    /\ parseInt(q[f]) >= min /\ parseInt(q[f]) <= max

\* the messages after the chains of the list route
listValidation(q) ==
     (IF isIntQuery(q, "page", 1, 1000000) THEN {} ELSE {"Invalid page"})
  \cup (IF isIntQuery(q, "limit", 1, 100) THEN {} ELSE {"Invalid limit"})
  \cup (IF Has(q, "status") /\ q.status \notin Statuses THEN {"Invalid status"} ELSE {})
  \cup (IF Has(q, "phase") /\ q.phase \notin Phases THEN {"Invalid phase"} ELSE {})

\* a query parameter that is present and not the empty string
Truthy(q, f) == Has(q, f) /\ q[f] # (IF f \in {"status", "phase"} THEN "" ELSE <<>>)

SearchFields ==
  {"trialName", "trialId", "description", "principalInvestigator", "sponsor",
   "therapeuticArea", "drugName"}

createdByFilterOff(us, u, doc) == TRUE

\* if (req.user.role !== 'admin') filter.createdBy = req.user._id
createdByFilter(us, u, doc) == us[u].role # "admin" => doc.createdBy = u

\* the document satisfies the filter built from the query
MatchesFilter(us, u, q, doc) ==
  /\ Truthy(q, "status") => doc.status = q.status
  /\ Truthy(q, "phase") => doc.phase = q.phase
  /\ Truthy(q, "therapeuticArea") => RegExpTestI(q.therapeuticArea, doc.therapeuticArea)
  /\ Truthy(q, "search") =>
       \E f \in SearchFields : Has(doc, f) /\ RegExpTestI(q.search, doc[f])
  /\ createdByFilter(us, u, doc)

RECURSIVE Newest(_)
\* sort({ createdAt: -1 }): the keys from the newest to the oldest
Newest(keys) ==
  IF keys = {} THEN <<>>
  ELSE LET k == CHOOSE x \in keys : \A y \in keys : y <= x
       IN <<k>> \o Newest(keys \ {k})

OrDefaultIgnored(q, f, dflt) == dflt

\* parseInt(v) || dflt
OrDefault(q, f, dflt) == IF Has(q, f) /\ parseInt(q[f]) # 0 THEN parseInt(q[f]) ELSE dflt

listTrials(us, store, u, q) ==
  LET page == OrDefault(q, "page", 1)
      limit == OrDefault(q, "limit", 10)
      skip == (page - 1) * limit
      found == Newest({ k \in Stored(store) : MatchesFilter(us, u, q, store[k]) })
      totalTrials == Len(found)
      shown == SubSeq(found, skip + 1, IF skip + limit < totalTrials THEN skip + limit
                                       ELSE totalTrials)
  IN IF listValidation(q) # {}
     THEN Reply(400, "Validation Error")
     ELSE [status |-> 200, error |-> "",
           trials |-> [i \in 1..Len(shown) |-> With(store[shown[i]], "_id", shown[i])],
           pagination |-> [currentPage |-> page,
                           totalPages |-> (totalTrials + limit - 1) \div limit,
                           totalTrials |-> totalTrials,
                           hasNextPage |-> page * limit < totalTrials,
                           hasPrevPage |-> page > 1]]

ListTrials(s, q) ==
  \/ Rejected401("list", s, 0, q)
  \/ /\ isAuthenticated(users, sessions, s)
     /\ Handled("list", s, 0, q,
                Outcome(listTrials(users, trials, SessionUser(users, sessions, s), q),
                        trials, 0), NoTrial)

\* the trials of the listed stores: three kinds of trial, of any of the users
ListBodies ==
  { BaseBody,
    Spread(BaseBody, [status |-> "Active", phase |-> "Phase II",
                      therapeuticArea |-> <<"C", "a", "r", "d">>,
                      drugName |-> <<"O", "n", "c", "9">>]),
    With(BaseBody, "status", "Active") }

ListStores ==
  { store \in [TrialKeys ->
                 {NoTrial} \cup { CreateDocument(u, Sanitized([b EXCEPT !.trialId = id])) :
                                    u \in UserIds, b \in ListBodies, id \in {IdUpper, IdOther} }] :
      \A j, k \in Stored(store) : j # k => store[j].trialId # store[k].trialId }

\* a query as the parameters that the request carries
QueryOf(q) == [f \in { g \in DOMAIN q : Truthy(q, g) } |-> q[f]]

\* every combination of the filters without paging, every paging with and
\* without a status, and two queries that carry an empty or unknown value
Queries ==
  { QueryOf(q) :
      q \in [status : {"", "Active"}, phase : {"", "Phase I"},
             therapeuticArea : {<<>>, <<"o", "N", "c">>},
             search : {<<>>, <<"o", "n", "C">>, <<"9">>}] }
  \cup { QueryOf(q) :
           q \in [status : {"", "Active"},
                  page : {<<>>, <<"1">>, <<"2">>, <<"3">>, <<"0">>},
                  limit : {<<>>, <<"1">>, <<"2">>}] }
  \cup { [status |-> "Bogus"], [status |-> "Active", therapeuticArea |-> <<>>] }

\* any store that creates and updates leave, everybody logged in but s0
InitList ==
  /\ users = [u \in UserIds |-> InitialAccount(u)]
  /\ sessions = [s \in Sessions |->
                   CASE s = "s1" -> "a1" [] s = "s2" -> "r1" [] s = "s3" -> "r2"
                     [] OTHER -> NoUser]
  /\ trials \in ListStores
  /\ pending = <<>>
  /\ clock = 0
  /\ last = NoRequest
  /\ client = initialState

NextList ==
  \/ Deliver
  \/ \E s \in {"s0", "s1", "s2"}, q \in Queries : ListTrials(s, q)

SpecList == InitList /\ [][NextList]_vars

---------------------------------------------------------------------------
(* DELETE /api/trials/:id, one await at a time *)

\* the handler up to the permission check on the result of await findById; a
\* request that passes waits to delete
RemoveBegin(s, key) ==
  LET u == SessionUser(users, sessions, s)
  IN \/ Rejected401("delete", s, key, NoBody)
     \/ /\ isAuthenticated(users, sessions, s)
        /\ deleteTrial(users, trials, u, key).resp # Ok
        /\ Handled("delete", s, key, NoBody, deleteTrial(users, trials, u, key), trials[key])
     \/ /\ isAuthenticated(users, sessions, s)
        /\ deleteTrial(users, trials, u, key).resp = Ok
        /\ Len(pending) < MaxPending
        /\ pending' = Append(pending, [sid |-> s, user |-> u, key |-> key])
        /\ UNCHANGED <<client, users, sessions, trials, clock, last>>

\* await findByIdAndDelete of the i-th waiting request, whose result the handler
\* does not look at, and the response
RemoveApply(i) ==
  /\ last = NoRequest
  /\ trials' = [trials EXCEPT ![pending[i].key] = Gone]
  /\ pending' = [j \in 1..(Len(pending) - 1) |-> IF j < i THEN pending[j] ELSE pending[j + 1]]
  /\ last' = Request("remove", pending[i].sid, pending[i].user, pending[i].key, NoBody, Ok,
                     trials[pending[i].key])
  /\ UNCHANGED <<client, users, sessions, clock>>

NextRemove ==
  \/ Deliver
  \/ \E s \in {"s0", "s1", "s2"}, k \in TrialKeys : RemoveBegin(s, k)
  \/ \E i \in 1..Len(pending) : RemoveApply(i)
  \/ \E s \in {"s1", "s2"}, k \in TrialKeys : GetTrial(s, k)

SpecRemove == InitList /\ [][NextRemove]_vars

---------------------------------------------------------------------------
(* The auth routes *)

Alphanumeric == LowerLetters \cup UpperLetters \cup Digits

\* isEmail(): one @ after a local part, and a dot inside the domain
isEmail(e) ==
  \E i \in 2..Len(e) :
    /\ e[i] = "@"
    /\ \A j \in 1..Len(e) : e[j] = "@" => j = i
    /\ \E j \in (i + 2)..(Len(e) - 1) : e[j] = "."

normalizeEmailKeepsCase(e) == e

\* normalizeEmail(): lower case
normalizeEmail(e) == toLowerCase(e)

\* the messages of validationResult(req) after the registerValidation chains
registerValidation(p) ==
     (IF isLength(p, "username", 3, 30) THEN {}
      ELSE {"Username must be between 3 and 30 characters"})
  \cup (IF Has(p, "username") /\ Len(p.username) >= 1
           /\ \A i \in 1..Len(p.username) : p.username[i] \in Alphanumeric \cup {"_"}
        THEN {} ELSE {"Username can only contain letters, numbers, and underscores"})
  \cup (IF Has(p, "email") /\ isEmail(p.email) THEN {}
        ELSE {"Please provide a valid email address"})
  \cup (IF isLength(p, "password", 6, 1000000) THEN {}
        ELSE {"Password must be at least 6 characters long"})
  \cup (IF /\ Has(p, "password")
           /\ \E i \in 1..Len(p.password) : p.password[i] \in LowerLetters
           /\ \E i \in 1..Len(p.password) : p.password[i] \in UpperLetters
           /\ \E i \in 1..Len(p.password) : p.password[i] \in Digits
        THEN {} ELSE {"Password must contain at least one lowercase letter, one uppercase letter, and one number"})
  \cup (IF isLength(p, "firstName", 1, 50) THEN {}
        ELSE {"First name is required and cannot exceed 50 characters"})
  \cup (IF isLength(p, "lastName", 1, 50) THEN {}
        ELSE {"Last name is required and cannot exceed 50 characters"})
  \cup (IF Has(p, "role") /\ p.role \notin {"researcher", "coordinator"}
        THEN {"Role must be researcher or coordinator"} ELSE {})
  \cup (IF Has(p, "department") /\ Len(p.department) > 100
        THEN {"Department name cannot exceed 100 characters"} ELSE {})

\* the messages after the loginValidation chains
loginValidation(p) ==
     (IF Has(p, "emailOrUsername") /\ Len(p.emailOrUsername) > 0 THEN {}
      ELSE {"Email or username is required"})
  \cup (IF Has(p, "password") /\ Len(p.password) > 0 THEN {}
        ELSE {"Password is required"})

\* the messages after the chains of PUT /profile
profileValidation(p) ==
     (IF Has(p, "firstName") /\ ~isLength(p, "firstName", 1, 50)
      THEN {"First name cannot exceed 50 characters"} ELSE {})
  \cup (IF Has(p, "lastName") /\ ~isLength(p, "lastName", 1, 50)
        THEN {"Last name cannot exceed 50 characters"} ELSE {})
  \cup (IF Has(p, "department") /\ Len(p.department) > 100
        THEN {"Department name cannot exceed 100 characters"} ELSE {})

ReplyM(status, error, message) == [status |-> status, error |-> error, message |-> message]

AlreadyAuthenticated == ReplyM(400, "Already Authenticated", "You are already logged in")

\* what an auth handler answers and the users, sessions and time it leaves
AuthOutcome(resp, us, ss, ck) == [resp |-> resp, users |-> us, sessions |-> ss, clock |-> ck]

\* the behaviours past the bounds of the model are cut
OutOfBounds == [resp |-> Reply(0, "out of bounds")]

FreeUserIds(us) == { u \in UserIds : us[u] = NoAccount }

\* const finalRole = allowedRoles.includes(role) ? role : 'researcher'
finalRole(p) ==
  IF Has(p, "role") /\ p.role \in {"researcher", "coordinator"} THEN p.role ELSE "researcher"

\* new User({ username, email, password, firstName, lastName, role: finalRole, department })
NewUser(p) ==
  LET doc == [username |-> p.username, email |-> normalizeEmail(p.email),
              password |-> Hash(p.password), firstName |-> p.firstName,
              lastName |-> p.lastName, role |-> finalRole(p),
              isActive |-> TRUE, lastLogin |-> 0]
  IN IF Has(p, "department") THEN With(doc, "department", p.department) ELSE doc

\* POST /api/auth/register
postRegister(us, ss, ck, s, p) ==
  IF isAuthenticated(us, ss, s)
  THEN AuthOutcome(AlreadyAuthenticated, us, ss, ck)
  ELSE IF registerValidation(p) # {}
  THEN AuthOutcome(Reply(400, "Validation Error"), us, ss, ck)
  ELSE IF Has(p, "role") /\ p.role = "admin"
  THEN AuthOutcome(Reply(403, "Forbidden"), us, ss, ck)
  ELSE IF \E u \in Registered(us) :
            us[u].email = normalizeEmail(p.email) \/ us[u].username = p.username
  THEN AuthOutcome(Reply(400, "User Already Exists"), us, ss, ck)
  ELSE IF FreeUserIds(us) = {}
  THEN OutOfBounds
  ELSE LET id == CHOOSE u \in FreeUserIds(us) : TRUE
       IN AuthOutcome(Created, [us EXCEPT ![id] = NewUser(p)], [ss EXCEPT ![s] = id], ck)

portalMismatchUserOnly(portal, role) ==
  IF portal = <<"u", "s", "e", "r">> /\ role = "admin"
  THEN "Admin accounts must log in via the admin portal."
  ELSE ""

\* the portal enforcement of the login route: the message of the refusal, or none
portalMismatch(portal, role) ==
  IF portal = <<"u", "s", "e", "r">> /\ role = "admin"
  THEN "Admin accounts must log in via the admin portal."
  ELSE IF portal = <<"a", "d", "m", "i", "n">> /\ role # "admin"
  THEN "Only admin accounts may use the admin portal."
  ELSE ""

\* the verify callback of the LocalStrategy, then the callback of passport.authenticate
postLogin(us, ss, ck, s, p) ==
  LET found == findByEmailOrUsername(us, p.emailOrUsername)
      u == CHOOSE x \in found : TRUE
      portal == toLowerCase(IF Has(p, "portal") THEN p.portal ELSE <<>>)
      seen == updateLastLogin(us, u, ck + 1)
  IN IF isAuthenticated(us, ss, s)
     THEN AuthOutcome(AlreadyAuthenticated, us, ss, ck)
     ELSE IF loginValidation(p) # {}
     THEN AuthOutcome(Reply(400, "Validation Error"), us, ss, ck)
     ELSE IF found = {}
     THEN AuthOutcome(ReplyM(401, "Authentication Failed",
                             "No user found with that email or username"), us, ss, ck)
     ELSE IF ~us[u].isActive
     THEN AuthOutcome(ReplyM(401, "Authentication Failed",
                             "Account is deactivated. Please contact administrator."),
                      us, ss, ck)
     ELSE IF ~comparePassword(us[u], p.password)
     THEN AuthOutcome(ReplyM(401, "Authentication Failed", "Incorrect password"), us, ss, ck)
     ELSE IF ck >= MaxLogins
     THEN OutOfBounds
     ELSE IF portalMismatch(portal, us[u].role) # ""
     THEN AuthOutcome(ReplyM(403, "Forbidden", portalMismatch(portal, us[u].role)),
                      seen, ss, ck + 1)
     ELSE AuthOutcome(ReplyM(200, "", "Login successful"), seen, [ss EXCEPT ![s] = u], ck + 1)

postLogoutKeepsSession(us, ss, ck, s) ==
  IF ~isAuthenticated(us, ss, s)
  THEN AuthOutcome(Unauthorized, us, ss, ck)
  ELSE AuthOutcome(ReplyM(200, "", "Logout successful"), us, ss, ck)

\* POST /api/auth/logout: req.logout, req.session.destroy
postLogout(us, ss, ck, s) ==
  IF ~isAuthenticated(us, ss, s)
  THEN AuthOutcome(Unauthorized, us, ss, ck)
  ELSE AuthOutcome(ReplyM(200, "", "Logout successful"), us, [ss EXCEPT ![s] = NoUser], ck)

ProfileUpdateWholeBody(p) == p

\* GET /api/auth/user
getUser(us, ss, ck, s) ==
  IF ~isAuthenticated(us, ss, s)
  THEN AuthOutcome(Unauthorized, us, ss, ck)
  ELSE AuthOutcome([status |-> 200, error |-> "", user |-> SessionUser(us, ss, s)], us, ss, ck)

\* GET /api/auth/check
getCheck(us, ss, ck, s) ==
  AuthOutcome([status |-> 200, error |-> "", isAuthenticated |-> isAuthenticated(us, ss, s),
               user |-> SessionUser(us, ss, s)], us, ss, ck)

\* the update document of User.findByIdAndUpdate in PUT /profile
ProfileUpdate(p) ==
  [k \in { f \in {"firstName", "lastName"} : Has(p, f) /\ Len(p[f]) > 0 }
         \cup { f \in {"department"} : Has(p, f) } |-> p[k]]

\* PUT /api/auth/profile
putProfile(us, ss, ck, s, p) ==
  LET u == SessionUser(us, ss, s)
  IN IF ~isAuthenticated(us, ss, s)
     THEN AuthOutcome(Unauthorized, us, ss, ck)
     ELSE IF profileValidation(p) # {}
     THEN AuthOutcome(Reply(400, "Validation Error"), us, ss, ck)
     ELSE AuthOutcome(ReplyM(200, "", "Profile updated successfully"),
                      [us EXCEPT ![u] = Spread(us[u], ProfileUpdate(p))], ss, ck)

---------------------------------------------------------------------------
(* Request bodies of the auth routes *)

PortalUser == <<"u", "s", "e", "r">>
PortalAdmin == <<"a", "d", "m", "i", "n">>
PortalAdminCaps == <<"A", "D", "M", "I", "N">>

BaseRegistration ==
  [username |-> NameN, email |-> EmailN, password |-> PwR,
   firstName |-> <<"f">>, lastName |-> <<"l">>]

RegisterBodies ==
  { IF role = "" THEN [BaseRegistration EXCEPT !.username = name, !.email = email]
    ELSE With([BaseRegistration EXCEPT !.username = name, !.email = email], "role", role) :
      name \in {NameN, NameR}, email \in {EmailN, toUpperCase(EmailR)},
      role \in {"", "coordinator", "admin"} }
  \cup { With([BaseRegistration EXCEPT !.password = <<"p", "w">>], "role", "admin"),
         [BaseRegistration EXCEPT !.username = NameR, !.password = <<"p", "w">>],
         [BaseRegistration EXCEPT !.username = <<"c">>] }

LoginBodies ==
  { IF portal = <<>> THEN [emailOrUsername |-> id, password |-> pw]
    ELSE [emailOrUsername |-> id, password |-> pw, portal |-> portal] :
      id \in {NameA, toUpperCase(EmailR), NameN, <<"z">>},
      pw \in {PwA, PwR},
      portal \in {<<>>, PortalUser, PortalAdminCaps} }
  \cup { [emailOrUsername |-> NameA, password |-> <<>>, portal |-> PortalAdmin] }

ProfileBodies ==
  { [firstName |-> <<"g">>, role |-> "admin"],
    [lastName |-> <<>>] }

---------------------------------------------------------------------------
(* Actions of the auth routes *)

AuthHandled(op, s, p, out) ==
  /\ last = NoRequest
  /\ out # OutOfBounds
  /\ users' = out.users
  /\ sessions' = out.sessions
  /\ clock' = out.clock
  /\ last' = Request(op, s, SessionUser(users, sessions, s), 0, p, out.resp, NoTrial)
  /\ UNCHANGED <<client, trials, pending>>

Register(s, p) == AuthHandled("register", s, p, postRegister(users, sessions, clock, s, p))

Login(s, p) == AuthHandled("login", s, p, postLogin(users, sessions, clock, s, p))

Logout(s) == AuthHandled("logout", s, NoBody, postLogout(users, sessions, clock, s))

UpdateProfile(s, p) == AuthHandled("profile", s, p, putProfile(users, sessions, clock, s, p))

GetUser(s) == AuthHandled("user", s, NoBody, getUser(users, sessions, clock, s))

Check(s) == AuthHandled("check", s, NoBody, getCheck(users, sessions, clock, s))

\* the admin provisioned out of band and one registered researcher; nobody logged in
Init ==
  /\ users = [u \in UserIds |-> IF u = "r2" THEN NoAccount ELSE InitialAccount(u)]
  /\ sessions = [s \in Sessions |-> NoUser]
  /\ trials = [k \in TrialKeys |-> NoTrial]
  /\ pending = <<>>
  /\ clock = 0
  /\ last = NoRequest
  /\ client = initialState

\* the sessions that send requests
Clients == {"s1", "s2"}

Next ==
  \/ Deliver
  \/ \E s \in Clients, p \in RegisterBodies : Register(s, p)
  \/ \E s \in Clients, p \in LoginBodies : Login(s, p)
  \/ \E s \in Clients : Logout(s)
  \/ \E s \in Clients, p \in ProfileBodies : UpdateProfile(s, p)
  \/ \E s \in Clients : GetUser(s)
  \/ \E s \in Clients : Check(s)
  \/ \E s \in Clients : CreateTrial(s, BaseBody)
  \/ \E s \in Clients, k \in TrialKeys : DeleteTrial(s, k)

Spec == Init /\ [][Next]_vars

---------------------------------------------------------------------------
(* Deactivation of an account while its sessions exist *)

\* isActive of a user document set to false in the database, between two requests
Deactivate(u) ==
  /\ last = NoRequest
  /\ users[u] # NoAccount
  /\ users[u].isActive
  /\ users' = [users EXCEPT ![u].isActive = FALSE]
  /\ UNCHANGED <<client, sessions, trials, pending, clock, last>>

ActiveLoginBodies ==
  { [emailOrUsername |-> id, password |-> pw, portal |-> portal] :
      id \in {NameA, EmailR}, pw \in {PwA, PwR}, portal \in {PortalUser, PortalAdmin} }

NextActive ==
  \/ Deliver
  \/ \E u \in UserIds : Deactivate(u)
  \/ \E s \in Sessions, p \in ActiveLoginBodies : Login(s, p)
  \/ \E s \in Sessions : Logout(s)
  \/ \E s \in Sessions : GetUser(s)
  \/ \E s \in Sessions : Check(s)
  \/ \E s \in Sessions : CreateTrial(s, BaseBody)

SpecActive == InitTrials /\ [][NextActive]_vars

---------------------------------------------------------------------------
(* The frontend: the auth context, the AdminLogin form, ProtectedRoute *)

MaxCalls == 2

\* mutant: the FAILURE actions leave isLoading as it is
authReducerFailureKeepsLoading(state, type, payload) ==
  CASE type \in {"LOGIN_START", "REGISTER_START", "LOAD_USER_START"} ->
         [state EXCEPT !.isLoading = TRUE, !.error = ""]
    [] type \in {"LOGIN_SUCCESS", "REGISTER_SUCCESS", "LOAD_USER_SUCCESS"} ->
         [state EXCEPT !.user = payload, !.isAuthenticated = TRUE, !.isLoading = FALSE,
                       !.error = ""]
    [] type \in {"LOGIN_FAILURE", "REGISTER_FAILURE", "LOAD_USER_FAILURE"} ->
         [state EXCEPT !.user = NoUser, !.isAuthenticated = FALSE, !.error = payload]
    [] type = "LOGOUT" ->
         [state EXCEPT !.user = NoUser, !.isAuthenticated = FALSE, !.isLoading = FALSE,
                       !.error = ""]
    [] type = "UPDATE_PROFILE_SUCCESS" -> [state EXCEPT !.user = payload, !.error = ""]
    [] OTHER -> state

\* authReducer: the fields named are replaced, the others kept (...state)
authReducer(state, type, payload) ==
  CASE type \in {"LOGIN_START", "REGISTER_START", "LOAD_USER_START"} ->
         [state EXCEPT !.isLoading = TRUE, !.error = ""]
    [] type \in {"LOGIN_SUCCESS", "REGISTER_SUCCESS", "LOAD_USER_SUCCESS"} ->
         [state EXCEPT !.user = payload, !.isAuthenticated = TRUE, !.isLoading = FALSE,
                       !.error = ""]
    [] type \in {"LOGIN_FAILURE", "REGISTER_FAILURE", "LOAD_USER_FAILURE"} ->
         [state EXCEPT !.user = NoUser, !.isAuthenticated = FALSE, !.isLoading = FALSE,
                       !.error = payload]
    [] type = "LOGOUT" ->
         [state EXCEPT !.user = NoUser, !.isAuthenticated = FALSE, !.isLoading = FALSE,
                       !.error = ""]
    [] type = "UPDATE_PROFILE_SUCCESS" -> [state EXCEPT !.user = payload, !.error = ""]
    [] OTHER -> state

\* dispatch(action)
dispatch(state, type, payload) ==
  [authReducer(state, type, payload) EXCEPT !.dispatched = type]

\* ProtectedRoute: what it renders
ProtectedRoute(state) ==
  IF state.isLoading THEN "spinner"
  ELSE IF ~state.isAuthenticated THEN "Navigate /login"
  ELSE "children"

\* the action type of a context function: its START, SUCCESS or FAILURE
TypeOf(fn, suffix) ==
  CASE fn = "loadUser" -> "LOAD_USER_" \o suffix
    [] fn = "login" -> "LOGIN_" \o suffix
    [] fn = "register" -> "REGISTER_" \o suffix

\* an API call of the page: the context function that made it, whether handleSubmit of
\* AdminLogin awaits it, and its request; not yet answered. The browser sends every
\* request on session s1
Call(fn, from, body) ==
  [fn |-> fn, from |-> from, body |-> body, stage |-> "sent", status |-> 0,
   message |-> "", user |-> NoUser, admin |-> FALSE, live |-> TRUE]

\* a context function is called: its START is dispatched, if it has one, and the
\* request is sent
Start(fn, from, body) ==
  /\ ~client.reloading
  /\ client.calls < MaxCalls
  /\ Len(pending) < MaxPending
  /\ client' = [(IF fn \in {"loadUser", "login", "register"}
                 THEN dispatch(client, TypeOf(fn, "START"), "") ELSE client)
                  EXCEPT !.calls = @ + 1,
                         !.flow = IF from = "AdminLogin" THEN "login" ELSE @]
  /\ pending' = Append(pending, Call(fn, from, body))
  /\ UNCHANGED <<users, sessions, trials, clock, last>>

\* the Login form: login({ ...formData, portal: 'user' }); the button is disabled
\* while isLoading
SubmitLogin(formData) ==
  /\ ~client.isLoading
  /\ Start("login", "Login", With(formData, "portal", PortalUser))

\* the Register form
SubmitRegister(formData) ==
  /\ ~client.isLoading
  /\ Start("register", "Register", formData)

\* the AdminLogin form: handleSubmit up to await login(formData)
SubmitAdminLogin(formData) ==
  /\ ~client.isLoading
  /\ client.flow \notin {"login", "logout"}
  /\ Start("login", "AdminLogin", formData)

\* the logout button of the header, shown when isAuthenticated
ClickLogout ==
  /\ client.isAuthenticated
  /\ Start("logout", "Header", NoBody)

\* updateProfile(profileData), by a view of the logged-in user
CallUpdateProfile(profileData) ==
  /\ client.isAuthenticated
  /\ ~client.isLoading
  /\ Start("updateProfile", "Profile", profileData)

\* the request of a call settles: the server handles it and answers, or no response
\* comes and the promise rejects; handleApiError gives the message of either
Settle ==
  \E i \in 1..Len(pending) :
    LET c == pending[i]
        out == CASE c.fn = "loadUser" -> getCheck(users, sessions, clock, "s1")
                 [] c.fn = "login" -> postLogin(users, sessions, clock, "s1", c.body)
                 [] c.fn = "register" -> postRegister(users, sessions, clock, "s1", c.body)
                 [] c.fn = "logout" -> postLogout(users, sessions, clock, "s1")
                 [] c.fn = "updateProfile" -> putProfile(users, sessions, clock, "s1", c.body)
        u == IF c.fn = "loadUser" THEN out.resp.user
             ELSE SessionUser(out.users, out.sessions, "s1")
    IN /\ c.stage = "sent"
       /\ \/ /\ out # OutOfBounds
             /\ users' = out.users
             /\ sessions' = out.sessions
             /\ clock' = out.clock
             /\ pending' = [pending EXCEPT ![i] =
                              [c EXCEPT !.stage = "answered", !.status = out.resp.status,
                                        !.message = IF Has(out.resp, "message")
                                                    THEN out.resp.message ELSE out.resp.error,
                                        !.user = IF out.resp.status \in {200, 201}
                                                 THEN u ELSE NoUser,
                                        !.admin = u # NoUser /\ out.users[u].role = "admin"]]
          \/ /\ pending' = [pending EXCEPT ![i] =
                              [c EXCEPT !.stage = "answered", !.status = 0,
                                        !.message = "Network error. Please check your connection."]]
             /\ UNCHANGED <<users, sessions, clock>>
       /\ UNCHANGED <<trials, last, client>>

\* the settled call reaches the page: the 401 interceptor, the continuation of the
\* context function, and handleSubmit of AdminLogin where it awaits the call; a page
\* that is gone gets nothing
Continue ==
  \E i \in 1..Len(pending) :
    LET c == pending[i]
        success == c.status \in {200, 201}
        after ==
          CASE c.fn = "loadUser" ->
                 IF success /\ c.user # NoUser
                 THEN dispatch(client, "LOAD_USER_SUCCESS", c.user)
                 ELSE dispatch(client, "LOAD_USER_FAILURE", IF success THEN "" ELSE c.message)
            [] c.fn \in {"login", "register"} ->
                 IF success THEN dispatch(client, TypeOf(c.fn, "SUCCESS"), c.user)
                 ELSE dispatch(client, TypeOf(c.fn, "FAILURE"), c.message)
            [] c.fn = "logout" -> dispatch(client, "LOGOUT", "")
            [] c.fn = "updateProfile" ->
                 IF success THEN dispatch(client, "UPDATE_PROFILE_SUCCESS", c.user) ELSE client
        again == c.from = "AdminLogin" /\ c.fn = "login" /\ success /\ ~c.admin
        rest == [j \in 1..(Len(pending) - 1) |-> IF j < i THEN pending[j] ELSE pending[j + 1]]
    IN /\ c.stage = "answered"
       /\ client' =
            IF ~c.live THEN client
            ELSE [after EXCEPT
                    !.reloading = @ \/ c.status = 401,
                    !.calls = IF again THEN @ + 1 ELSE @,
                    !.flow = IF c.from # "AdminLogin" THEN @
                             ELSE IF c.fn = "logout" THEN "refused"
                             ELSE IF again THEN "logout"
                             ELSE IF success THEN "dashboard" ELSE "failed",
                    !.result = IF c.from = "AdminLogin" /\ c.fn = "login" THEN c.user ELSE @,
                    !.localError =
                       IF c.from = "AdminLogin" /\ c.fn = "logout"
                       THEN "This portal is for Admin only. Please use the user login instead."
                       ELSE @]
       /\ pending' = IF c.live /\ again
                     THEN Append(rest, Call("logout", "AdminLogin", NoBody))
                     ELSE rest
       /\ UNCHANGED <<users, sessions, trials, clock, last>>

\* window.location.href = '/login' after a 401: the page is loaded again, its first
\* effect runs loadUser(), and the calls of the page that is left have nobody to answer
Reload ==
  /\ client.reloading
  /\ client' = [dispatch(initialState, "LOAD_USER_START", "") EXCEPT !.calls = client.calls]
  /\ pending' = Append([j \in 1..Len(pending) |-> [pending[j] EXCEPT !.live = FALSE]],
                       Call("loadUser", "mount", NoBody))
  /\ UNCHANGED <<users, sessions, trials, clock, last>>

\* a page is opened and its first effect has run: loadUser() has dispatched
\* LOAD_USER_START and awaits authAPI.checkAuth(); the browser may hold the session
\* of an earlier visit
InitClient ==
  /\ users = [u \in UserIds |-> IF u = "r2" THEN NoAccount ELSE InitialAccount(u)]
  /\ sessions \in { [s \in Sessions |-> IF s = "s1" THEN u ELSE NoUser] : u \in {NoUser, "r1"} }
  /\ trials = [k \in TrialKeys |-> NoTrial]
  /\ pending = <<Call("loadUser", "mount", NoBody)>>
  /\ clock = 0
  /\ last = NoRequest
  /\ client = dispatch(initialState, "LOAD_USER_START", "")

\* the forms send the credentials typed; Login adds its portal, AdminLogin none
NextClient ==
  \/ \E p \in ActiveLoginBodies : SubmitLogin(Without(p, "portal"))
  \/ SubmitRegister(BaseRegistration)
  \/ \E p \in ActiveLoginBodies : SubmitAdminLogin(Without(p, "portal"))
  \/ ClickLogout
  \/ \E p \in ProfileBodies : CallUpdateProfile(p)
  \/ Settle
  \/ Continue
  \/ Reload

\* every request settles, every settled call is continued, a page that is left loads
SpecClient ==
  InitClient /\ [][NextClient]_vars /\ WF_vars(Settle) /\ WF_vars(Continue) /\ WF_vars(Reload)

---------------------------------------------------------------------------
(* Vocabulary of the properties *)

IsDoc(d) == d \notin {NoTrial, Gone}

IsValidationError(r) == r.status = 400 /\ r.error = "Validation Error"
IsConflict(r) == r.status = 400 /\ r.error = "Duplicate Trial ID"
IsForbidden(r) == r.status = 403 /\ r.error = "Forbidden"
IsSuccess(r) == r.status \in {200, 201}

\* the requester of the last request is the owner of T or an admin
ByOwnerOrAdmin(T) ==
  /\ last.user # NoUser
  /\ users[last.user].role = "admin" \/ T.createdBy = last.user

\* the last request is an update of a stored trial
UpdateOfStored == last.op = "update" /\ IsDoc(last.before)

\* a field of the record that results from merging body p onto trial T
Merged(T, p, f) ==
  IF ~Has(p, f) THEN T[f]
  ELSE IF f \in {"startDate", "endDate"} THEN toDate(p[f])
  ELSE p[f]

\* the dates a body carries parse
DatesParse(p) == \A f \in {"startDate", "endDate"} : Has(p, f) => isISO8601(p[f])

\* midnight of the day of a date
Midnight(d) == (d \div TicksPerDay) * TicksPerDay

MergedEnrollmentExceeds(T, p) ==
  Merged(T, p, "actualEnrollment") > Merged(T, p, "estimatedEnrollment")

MergedDatesOutOfOrder(T, p) ==
  /\ DatesParse(p)
  /\ Midnight(Merged(T, p, "endDate")) <= Midnight(Merged(T, p, "startDate"))

\* body p names, up to letter case, the trialId of a stored trial other than key
NamesOtherTrial(p, key) ==
  /\ Has(p, "trialId")
  /\ \E k \in Stored(trials) \ {key} : trials[k].trialId = toUpperCase(p.trialId)

\* the failure of a rejected update: Conflict for a body that passes the field
\* checks and names another trial's trialId, ValidationError otherwise
RejectedAsExpected ==
  IF trialValidation(last.body) = {} /\ NamesOtherTrial(last.body, last.key)
  THEN IsConflict(last.resp)
  ELSE IsValidationError(last.resp)

TargetUnchanged == trials[last.key] = last.before

---------------------------------------------------------------------------
(* C1 *)

---------------------------------------------------------------------------
(* C2 *)

---------------------------------------------------------------------------
(* C3 *)

\* the last request reads, updates or deletes a stored trial
OnStored == last.op \in {"get", "update", "delete"} /\ IsDoc(last.before)

\* the body of an update passes every check against trial T stored under key
PassesValidation(T, p, key) ==
  /\ trialValidation(p) = {}
  /\ ~NamesOtherTrial(p, key)
  /\ ~MergedDatesOutOfOrder(T, p)
  /\ ~MergedEnrollmentExceeds(T, p)

\* C3: GET, PUT (with a body that passes the field checks) and DELETE of a stored
\* trial by an authenticated user who is neither admin nor its creator answer 403
\* Forbidden and leave the trial unchanged; the same operations by an admin (PUT
\* with a body that passes validation) succeed.
C3_OwnerOrAdminOnly ==
  /\ (OnStored /\ last.user # NoUser /\ ~ByOwnerOrAdmin(last.before)
        /\ (last.op = "update" => trialValidation(last.body) = {}))
     => (IsForbidden(last.resp) /\ TargetUnchanged)
  /\ (OnStored /\ last.user # NoUser /\ users[last.user].role = "admin"
        /\ (last.op = "update" => PassesValidation(last.before, last.body, last.key)))
     => last.resp.status = 200

\* a researcher is refused the update of a trial that another researcher created
C3_Witness ==
  /\ last.op = "update" /\ IsDoc(last.before)
  /\ last.user # NoUser /\ users[last.user].role = "researcher"
  /\ last.before.createdBy \notin {last.user, "a1"}
  /\ trialValidation(last.body) = {}
  /\ IsForbidden(last.resp)
  /\ TargetUnchanged

---------------------------------------------------------------------------
(* C7 *)

ContainsLowercase(id) == \E i \in 1..Len(id) : id[i] \in LowerLetters

\* the body with its trialId in upper case
Normalised(p) == With(p, "trialId", toUpperCase(p.trialId))

\* C7: a create by an authenticated user whose body is valid but for the letter
\* case of its trialId, and names no stored trial, succeeds and stores the trialId
\* in upper case.
C7_LowercaseIdStoredUppercase ==
  (/\ last.op = "create" /\ last.user # NoUser
   /\ Has(last.body, "trialId") /\ ContainsLowercase(last.body.trialId)
   /\ trialValidation(Normalised(last.body)) = {}
   /\ ~NamesOtherTrial(last.body, last.key))
  => /\ last.resp.status = 201
     /\ IsDoc(trials[last.key])
     /\ trials[last.key].trialId = toUpperCase(last.body.trialId)

---------------------------------------------------------------------------
(* C8 *)

\* C8: a create by an authenticated user whose body is valid up to the letter case of
\* its trialId, and whose trialId in upper case is that of a stored trial, fails with
\* Conflict, and one trial with that trialId is stored.
C8_SecondCreateConflicts ==
  (/\ last.op = "create" /\ last.user # NoUser
   /\ Has(last.body, "trialId")
   /\ trialValidation(Normalised(last.body)) = {}
   /\ NamesOtherTrial(last.body, last.key))
  => /\ IsConflict(last.resp)
     /\ Cardinality({ k \in Stored(trials) :
                        trials[k].trialId = toUpperCase(last.body.trialId) }) = 1

---------------------------------------------------------------------------
(* Login, registration and roles *)

\* the last request came from a client that was not logged in
FromAnonymous(op) == last.op = op /\ last.user = NoUser

\* the accounts that the credentials of the last login open
Opened ==
  { u \in Registered(users) :
      /\ users[u].username = last.body.emailOrUsername
           \/ users[u].email = toLowerCase(last.body.emailOrUsername)
      /\ users[u].isActive
      /\ users[u].password = Hash(last.body.password) }

\* the portal of the last login is the one that the role of u may not use
WrongPortal(u) ==
  /\ Has(last.body, "portal")
  /\ \/ toLowerCase(last.body.portal) = PortalAdmin /\ users[u].role # "admin"
     \/ toLowerCase(last.body.portal) = PortalUser /\ users[u].role = "admin"

\* C4: a login with correct credentials through the portal that does not match
\* the role of the account is answered 403 Forbidden, and a login that is not
\* answered with success leaves the requesting session unauthenticated
C4_PortalMismatchForbidden ==
  /\ (FromAnonymous("login") /\ loginValidation(last.body) = {}
        /\ \E u \in Opened : WrongPortal(u))
       => IsForbidden(last.resp) /\ sessions[last.sid] = NoUser
  /\ (FromAnonymous("login") /\ last.resp.status # 200) => sessions[last.sid] = NoUser

\* a researcher with the right password is refused at the admin portal
C4_Witness ==
  /\ FromAnonymous("login")
  /\ loginValidation(last.body) = {}
  /\ \E u \in Opened : WrongPortal(u) /\ users[u].role = "researcher"
  /\ IsForbidden(last.resp)
  /\ sessions[last.sid] = NoUser

\* C5 as stated: a registration with role "admin" is answered 403 Forbidden,
\* whatever the other fields, and creates no user and no session
C5_AdminRoleForbidden ==
  (FromAnonymous("register") /\ Has(last.body, "role") /\ last.body.role = "admin")
    => /\ IsForbidden(last.resp)
       /\ sessions[last.sid] = NoUser

Admins(us) == { u \in Registered(us) : us[u].role = "admin" }

\* a registration without a role succeeded
RegisteredWithoutRole ==
  /\ FromAnonymous("register")
  /\ last.resp.status = 201
  /\ ~Has(last.body, "role")

\* C6: the admins are always the admins of the initial state, a registration
\* that omits the role produces a researcher, and no step changes the role of
\* an existing user
C6_NoAdminThroughEndpoints ==
  /\ [](/\ Admins(users) = {"a1"}
        /\ RegisteredWithoutRole => users[sessions[last.sid]].role = "researcher")
  /\ [][\A u \in Registered(users) : users'[u] # NoAccount /\ users'[u].role = users[u].role]_vars

\* a registration without a role has produced a researcher, after a profile
\* update that carried a role was accepted
C6_Witness ==
  /\ RegisteredWithoutRole
  /\ users[sessions[last.sid]].role = "researcher"
  /\ \E u \in Registered(users) : users[u].firstName = <<"g">>

---------------------------------------------------------------------------
(* Concurrent creates *)

\* C9 as stated: a create that passed the uniqueness check and finds, when it
\* saves, that a trial with its trialId has been stored meanwhile is answered
\* with Conflict, and one trial with that trialId is stored
C9_LoserGetsConflict ==
  (last.op = "save" /\ NamesOtherTrial(last.body, last.key))
    => /\ IsConflict(last.resp)
       /\ Cardinality({ k \in Stored(trials) :
                          trials[k].trialId = toUpperCase(last.body.trialId) }) = 1

---------------------------------------------------------------------------
(* Listing *)

\* the query of the last request supplies the parameter f
Supplied(f) == Has(last.body, f)

\* the searchable text fields of trial T contain the text, letter case aside
Mentions(T, text) ==
  \E f \in SearchFields :
    /\ Has(T, f)
    /\ \E k \in 0..(Len(T[f]) - Len(text)) :
         \A i \in 1..Len(text) : toLowerCase(T[f])[k + i] = toLowerCase(text)[i]

\* trial T matches every filter parameter that the last request supplies
MatchesSupplied(T) ==
  /\ Supplied("status") => T.status = last.body.status
  /\ Supplied("phase") => T.phase = last.body.phase
  /\ Supplied("therapeuticArea") =>
       Mentions([therapeuticArea |-> T.therapeuticArea], last.body.therapeuticArea)
  /\ Supplied("search") => Mentions(T, last.body.search)

\* the trials that the requester of the last request may be shown
Visible ==
  { k \in Stored(trials) :
      users[last.user].role = "admin" \/ trials[k].createdBy = last.user }

Listed == { last.resp.trials[i]._id : i \in 1..Len(last.resp.trials) }

\* C10: a list returns trials of the store; for a non-admin each of them was
\* created by the requester; the trials counted are exactly the visible trials
\* that match all supplied filters, and without page and limit they are all
\* returned
C10_ListScopedToCaller ==
  (last.op = "list" /\ last.resp.status = 200)
    => LET want == { k \in Visible : MatchesSupplied(trials[k]) }
       IN /\ \A i \in 1..Len(last.resp.trials) :
               /\ last.resp.trials[i]._id \in Stored(trials)
               /\ Without(last.resp.trials[i], "_id") = trials[last.resp.trials[i]._id]
               /\ users[last.user].role # "admin"
                    => last.resp.trials[i].createdBy = last.user
          /\ Listed \subseteq want
          /\ last.resp.pagination.totalTrials = Cardinality(want)
          /\ (~Supplied("page") /\ ~Supplied("limit")) => Listed = want

\* a researcher searches with a status: the one own trial that matches is
\* returned, and a matching trial of somebody else is not
C10_Witness ==
  /\ last.op = "list" /\ last.resp.status = 200
  /\ users[last.user].role = "researcher"
  /\ Supplied("search") /\ Supplied("status")
  /\ ~Supplied("page") /\ ~Supplied("limit")
  /\ Cardinality(Listed) = 1
  /\ \E k \in Stored(trials) \ Visible : MatchesSupplied(trials[k])

---------------------------------------------------------------------------
(* Pagination *)

\* the number of trials that match the last list request
Matching == last.resp.pagination.totalTrials

\* the page and the limit that the last list request asks for
AskedPage == IF Supplied("page") THEN parseInt(last.body.page) ELSE 1
AskedLimit == IF Supplied("limit") THEN parseInt(last.body.limit) ELSE 10

Min(a, b) == IF a <= b THEN a ELSE b
Max(a, b) == IF a >= b THEN a ELSE b

\* the ids on page i of the last list request, asked again of the same store
PageIds(i) ==
  LET r == listTrials(users, trials, last.user, With(last.body, "page", <<DigitSeq[i + 1]>>))
  IN [j \in 1..Len(r.trials) |-> r.trials[j]._id]

RECURSIVE Pages(_)
\* the ids of the pages 1..n, one after the other
Pages(n) == IF n = 0 THEN <<>> ELSE Pages(n - 1) \o PageIds(n)

\* C11: page p with limit L of N matching trials has min(L, max(0, N-(p-1)L))
\* trials, totalPages = ceil(N/L), hasNextPage iff p*L < N, hasPrevPage iff
\* p > 1, and the pages 1..totalPages hold every matching trial exactly once
C11_Pagination ==
  (last.op = "list" /\ last.resp.status = 200)
    => LET pg == last.resp.pagination
           all == Pages(pg.totalPages)
       IN /\ Len(last.resp.trials)
               = Min(AskedLimit, Max(0, Matching - (AskedPage - 1) * AskedLimit))
          /\ pg.totalPages * AskedLimit >= Matching
          /\ (pg.totalPages - 1) * AskedLimit < Matching \/ pg.totalPages = 0
          /\ pg.hasNextPage <=> AskedPage * AskedLimit < Matching
          /\ pg.hasPrevPage <=> AskedPage > 1
          /\ Len(all) = Matching
          /\ \A i, j \in 1..Len(all) : i # j => all[i] # all[j]
          /\ { all[i] : i \in 1..Len(all) }
               = { k \in Visible : MatchesSupplied(trials[k]) }

\* the second page of one trial each, of two matching trials: one trial, a
\* previous page and no next page
C11_Witness ==
  /\ last.op = "list" /\ last.resp.status = 200
  /\ AskedPage = 2 /\ AskedLimit = 1 /\ Matching = 2
  /\ Len(last.resp.trials) = 1
  /\ last.resp.pagination.hasPrevPage /\ ~last.resp.pagination.hasNextPage
  /\ last.resp.pagination.totalPages = 2

---------------------------------------------------------------------------
(* Failed logins *)

\* the response to a login with the password of the last request and an
\* identifier that no account has
UnknownIdentifierResponse ==
  postLogin(users, sessions, clock, last.sid,
            [emailOrUsername |-> <<"z", "z">>, password |-> last.body.password]).resp

\* C12 as stated: a login that fails with 401 gets the response that a login
\* with an unknown identifier gets, whatever the cause of the failure
C12_FailedLoginsAlike ==
  (FromAnonymous("login") /\ last.resp.status = 401)
    => last.resp = UnknownIdentifierResponse

---------------------------------------------------------------------------
(* Who modified, partial updates, creates *)

\* C13 as stated: after a successful update the stored trial has
\* lastModifiedBy = the user who sent the update
C13_LastModifiedByUpdater ==
  (UpdateOfStored /\ last.resp.status = 200)
    => trials[last.key].lastModifiedBy = last.user

\* the record that results from merging the body of the last request onto the
\* trial it updates
MergedRecord ==
  [f \in DOMAIN last.before \cup ((DOMAIN last.body) \cap SchemaPaths) |->
     Merged(last.before, last.body, f)]

\* the merged record of the last update satisfies all rules
MergedSatisfiesRules ==
  /\ DatesParse(last.body)
  /\ SchemaErrors(MergedRecord) = {}
  /\ ~MergedDatesOutOfOrder(last.before, last.body)
  /\ ~MergedEnrollmentExceeds(last.before, last.body)
  /\ ~NamesOtherTrial(last.body, last.key)

\* C14 as stated: an update by the owner or an admin that carries some of
\* the trial fields, and whose merged record satisfies all rules, succeeds,
\* sets the fields it carries and leaves the other fields as they were
C14_PartialUpdateAccepted ==
  (/\ UpdateOfStored /\ ByOwnerOrAdmin(last.before)
   /\ DOMAIN last.body \subseteq SchemaPaths \ {"createdBy", "lastModifiedBy"}
   /\ MergedSatisfiesRules)
  => /\ last.resp.status = 200
     /\ \A f \in DOMAIN last.before \ (DOMAIN last.body \cup {"lastModifiedBy"}) :
          trials[last.key][f] = last.before[f]
     /\ \A f \in DOMAIN last.body : trials[last.key][f] = MergedRecord[f]

\* the start and the end of body p are on the same calendar day
SameDay(p) ==
  /\ Has(p, "startDate") /\ Has(p, "endDate")
  /\ DatesParse(p)
  /\ Midnight(toDate(p.startDate)) = Midnight(toDate(p.endDate))

\* C15 as stated: a create whose startDate and endDate are on the same
\* calendar day fails with ValidationError and stores nothing
C15_SameDayCreateRejected ==
  (last.op = "create" /\ last.user # NoUser /\ SameDay(last.body))
    => /\ IsValidationError(last.resp)
       /\ last.key = 0

\* C16: a trial stored by a successful create has createdBy and
\* lastModifiedBy equal to the user who sent the request, whatever the body
\* carries for them, and status Planning when the body has no status
C16_CreatorStamped ==
  (last.op = "create" /\ last.resp.status = 201)
    => /\ IsDoc(trials[last.key])
       /\ trials[last.key].createdBy = last.user
       /\ trials[last.key].lastModifiedBy = last.user
       /\ ~Has(last.body, "status") => trials[last.key].status = "Planning"

\* a create whose body names another user as creator and modifier is stored
\* under the name of the requester, with status Planning
C16_Witness ==
  /\ last.op = "create" /\ last.resp.status = 201
  /\ Has(last.body, "createdBy") /\ last.body.createdBy # last.user
  /\ Has(last.body, "lastModifiedBy") /\ last.body.lastModifiedBy # last.user
  /\ ~Has(last.body, "status")
  /\ trials[last.key].createdBy = last.user
  /\ trials[last.key].lastModifiedBy = last.user
  /\ trials[last.key].status = "Planning"

---------------------------------------------------------------------------
(* Concurrent removes *)

\* C17 as stated: a remove that is applied when the trial is already gone is
\* answered NotFound
C17_RemoveOfGoneIsNotFound ==
  (last.op = "remove" /\ last.before = Gone) => last.resp.status = 404

---------------------------------------------------------------------------
(* Logout *)

\* the requests to the endpoints behind isAuthenticated
ToProtected == last.op \in {"user", "logout", "profile", "create", "update", "get", "delete"}

\* C18: a successful logout leaves the session unauthenticated; a session
\* becomes authenticated only by a successful login or registration on it; and
\* a request on an unauthenticated session is answered 401 Unauthorized by the
\* protected endpoints and isAuthenticated = false by GET /auth/check
C18_LoggedOutUntilLogin ==
  /\ []((last.op = "logout" /\ last.resp.status = 200) => sessions[last.sid] = NoUser)
  /\ []((ToProtected /\ last.user = NoUser) => last.resp = Unauthorized)
  /\ [](last.op = "check" => (last.resp.isAuthenticated <=> last.user # NoUser))
  /\ [][\A s \in Sessions :
          (sessions[s] = NoUser /\ sessions'[s] # NoUser)
            => /\ last'.op \in {"login", "register"}
               /\ last'.sid = s
               /\ IsSuccess(last'.resp)]_vars

\* a logout has succeeded and its session is unauthenticated
C18_Witness ==
  /\ last.op = "logout" /\ last.resp.status = 200
  /\ last.user # NoUser
  /\ sessions[last.sid] = NoUser

---------------------------------------------------------------------------
(* Stored dates *)

\* C19: every stored trial has an endDate later than its startDate
C19_EndAfterStart ==
  \A k \in Stored(trials) :
    /\ Has(trials[k], "startDate") /\ Has(trials[k], "endDate")
    /\ trials[k].endDate > trials[k].startDate

\* an update has moved the endDate of a stored trial, and it is after the start
C19_Witness ==
  /\ UpdateOfStored /\ last.resp.status = 200
  /\ trials[last.key].endDate # last.before.endDate
  /\ trials[last.key].endDate > trials[last.key].startDate

---------------------------------------------------------------------------
(* Duplicate registrations *)

IsUserConflict(r) == r.status = 400 /\ r.error = "User Already Exists"

\* the users that existed before the last request
Before ==
  Registered(users) \ (IF last.op = "register" /\ last.resp.status = 201
                       THEN {sessions[last.sid]} ELSE {})

\* the last registration names the username, or up to letter case the email,
\* of a user that existed before it
NamesExistingUser ==
  \E u \in Before :
    \/ users[u].username = last.body.username
    \/ users[u].email = toLowerCase(last.body.email)

UniqueIdentities ==
  \A u, v \in Registered(users) :
    u # v => users[u].username # users[v].username /\ users[u].email # users[v].email

---------------------------------------------------------------------------
(* Order of the checks of an update, rejected logins, trialId and owner *)

\* C22 as stated: an update of a trial that does not exist is answered
\* NotFound, and an update by somebody who is neither the owner nor an admin
\* is answered Forbidden, whatever the body
C22_LoadAuthorizeValidate ==
  (last.op = "update" /\ last.user # NoUser)
    => /\ ~IsDoc(last.before) => last.resp.status = 404
       /\ (IsDoc(last.before) /\ ~ByOwnerOrAdmin(last.before)) => IsForbidden(last.resp)

\* C23 as stated: a login that is not answered with success leaves every
\* user record, the last-login timestamp included, as it was
C23_RejectedLoginChangesNothing ==
  [][(last'.op = "login" /\ last'.resp.status # 200) => users' = users]_vars

\* the body of the last update names, up to letter case, the trialId that
\* the trial had
ResubmitsOwnId ==
  Has(last.body, "trialId") /\ toUpperCase(last.body.trialId) = last.before.trialId

\* C24: an update that passes the field validation and resubmits the trial's
\* own trialId is not answered Conflict; one by the owner or an admin that
\* names the trialId of another stored trial is answered Conflict; and an
\* update answered Conflict changes no trial
C24_OwnIdIsNoDuplicate ==
  /\ []((UpdateOfStored /\ trialValidation(last.body) = {} /\ ResubmitsOwnId)
          => ~IsConflict(last.resp))
  /\ []((UpdateOfStored /\ ByOwnerOrAdmin(last.before) /\ trialValidation(last.body) = {}
          /\ ~ResubmitsOwnId /\ NamesOtherTrial(last.body, last.key))
          => IsConflict(last.resp))
  /\ [][(last'.op = "update" /\ IsConflict(last'.resp)) => trials' = trials]_vars

\* the owner renames a trial to the trialId of the other stored trial and is
\* answered Conflict
C24_Witness ==
  /\ UpdateOfStored /\ ByOwnerOrAdmin(last.before)
  /\ trialValidation(last.body) = {}
  /\ ~ResubmitsOwnId
  /\ NamesOtherTrial(last.body, last.key)
  /\ IsConflict(last.resp)
  /\ TargetUnchanged

\* C25 as stated: after a successful update the trial has the owner it had
C25_OwnerNeverChanges ==
  (UpdateOfStored /\ last.resp.status = 200)
    => trials[last.key].createdBy = last.before.createdBy

\* C26 as stated: a login that establishes a session carried portal "admin"
\* for an admin account and portal "user" for any other account
C26_SessionOnlyThroughOwnPortal ==
  (FromAnonymous("login") /\ last.resp.status = 200)
    => /\ Has(last.body, "portal")
       /\ last.body.portal = (IF users[sessions[last.sid]].role = "admin"
                              THEN PortalAdmin ELSE PortalUser)


---------------------------------------------------------------------------
(* Two updates of one trial at the same time *)

Consistent(doc) ==
  /\ doc.endDate > doc.startDate
  /\ doc.actualEnrollment <= doc.estimatedEnrollment

\* C27: when two updates of the same trial, each acceptable against the document it
\* loaded, have both been saved, the stored trial still has endDate > startDate and
\* actualEnrollment <= estimatedEnrollment
C27_ConcurrentUpdatesKeepInvariants ==
  (pending = <<>> /\ last.op = "update" /\ last.resp.status = 200 /\ IsDoc(trials[last.key]))
    => Consistent(trials[last.key])


---------------------------------------------------------------------------
(* Deactivated accounts *)

\* the session of the last request belongs to a deactivated account
OfDeactivated ==
  /\ sessions[last.sid] # NoUser
  /\ users[sessions[last.sid]] # NoAccount
  /\ ~users[sessions[last.sid]].isActive

\* the accounts that the identifier of the last login names
Named ==
  IF Has(last.body, "emailOrUsername")
  THEN findByEmailOrUsername(users, last.body.emailOrUsername) ELSE {}

\* C28: a request on a session of a deactivated account gets 401 Unauthorized from
\* the authenticated endpoints and isAuthenticated = false from GET /auth/check,
\* although nobody logged out; and no login succeeds for a deactivated account
C28_DeactivatedIsUnauthenticated ==
  /\ (ToProtected /\ OfDeactivated) => last.resp = Unauthorized
  /\ (last.op = "check" /\ OfDeactivated) => ~last.resp.isAuthenticated
  /\ (last.op = "login" /\ \E u \in Named : ~users[u].isActive) => last.resp.status # 200

C28_Witness ==
  /\ last.op = "create" /\ OfDeactivated
  /\ last.resp = Unauthorized
  /\ \E s \in Sessions : s # last.sid /\ isAuthenticated(users, sessions, s)


---------------------------------------------------------------------------
(* The frontend *)

\* C21: when handleSubmit of AdminLogin has finished for a non-admin who gave correct
\* credentials, the server holds no authenticated session of the browser, the auth
\* context is unauthenticated, and an error is shown
C21_AdminFormLeavesNoSession ==
  [][(client.flow # "refused" /\ client'.flow = "refused")
       => /\ SessionUser(users', sessions', "s1") # client'.result
          /\ ~client'.isAuthenticated
          /\ (client'.localError # "" \/ client'.error # "")]_vars

\* C29: in every state of the auth context, isAuthenticated is true exactly when user
\* is not null
C29_AuthenticatedIffUser == client.isAuthenticated <=> client.user # NoUser

StartingFunctions == {"loadUser", "login", "register"}

\* the calls of a context function that the page awaits
Awaited(fn) == { i \in 1..Len(pending) : pending[i].fn = fn /\ pending[i].live }

\* C30: a call of loadUser, login or register that has dispatched its START stops being
\* awaited, and it does so in a step that dispatches its SUCCESS or its FAILURE, unless
\* the page is left; isLoading becomes false again, so ProtectedRoute leaves the
\* spinner; and it renders its children only if isAuthenticated, else the redirect
C30_StartIsAnswered ==
  /\ \A fn \in StartingFunctions : (Awaited(fn) # {}) ~> (Awaited(fn) = {})
  /\ [][\A fn \in StartingFunctions :
          Cardinality(Awaited(fn)') < Cardinality(Awaited(fn))
            => \/ client'.dispatched \in {TypeOf(fn, "SUCCESS"), TypeOf(fn, "FAILURE")}
               \/ client.reloading]_vars
  /\ client.isLoading ~> ~client.isLoading
  /\ (ProtectedRoute(client) = "spinner") ~> (ProtectedRoute(client) # "spinner")
  /\ [](ProtectedRoute(client) = "children" => client.isAuthenticated)
  /\ []((~client.isLoading /\ ~client.isAuthenticated)
          => ProtectedRoute(client) = "Navigate /login")

C30_Witness ==
  /\ client.dispatched = "LOGIN_FAILURE"
  /\ pending = <<>>
  /\ ProtectedRoute(client) = "Navigate /login"

====
